---- MODULE Spec2Model ----
(***************************************************************************)
(* Trade portal backend (server.js): registration, login, token            *)
(* verification and the tenant-scoped branding / company / quote handlers, *)
(* over the four tables that initDB creates.                               *)
(*                                                                         *)
(* Every store query is one atomic step of the relational store.  A        *)
(* handler that awaits several queries (POST /api/register) is one action  *)
(* per await; a handler with a single query is one action.  Each query     *)
(* takes a boolean `fault`: the store raising an error that the handler's  *)
(* catch block turns into a 500 (lost connection, a constraint other than  *)
(* the UNIQUE ones modelled here, an over-long value).                     *)
(***************************************************************************)
EXTENDS Integers, FiniteSets, Sequences, TLC

VARIABLES companies, users, company_branding, quotes, seq, reg, issued, clock, resp

vars == <<companies, users, company_branding, quotes, seq, reg, issued, clock, resp>>

store == <<companies, users, company_branding, quotes, seq>>

-----------------------------------------------------------------------------
(* Bounds of the model *)

\* number of POST /api/register requests
NumRegs == 2

\* the clock runs over days 0 .. MaxClock
MaxClock == 8

\* number of quote ids the quotes sequence hands out
MaxQuotes == 2

\* number of distinct values Math.random() yields in generateQuoteRef
NumRefs == 2

-----------------------------------------------------------------------------
(* Values *)

\* JS undefined and JSON null in a request body; node-postgres sends both as SQL NULL
Undefined == "undefined"

JsNull == "null"

NULL == "NULL"

Emails == {"a@acme.test", "b@stone.test"}

Regs == 1 .. NumRegs

\* pg converts an undefined or null parameter to SQL NULL
SqlParam(v) == IF v \in {Undefined, JsNull} THEN NULL ELSE v

\* COALESCE($n, column)
COALESCE(a, b) == IF a # NULL THEN a ELSE b

-----------------------------------------------------------------------------
(* bcryptjs, as the handlers use it *)

\* bcrypt.hash / bcrypt.compare reject anything that is not a string
IsString(v) == v \notin {Undefined, JsNull}

\* bcrypt.hash(password, 10): a one-way digest of the password, cost 10
BcryptHash(password) == <<"$2a$10$", password>>

\* bcrypt.compare(password, hash)
BcryptCompare(password, hash) == hash = BcryptHash(password)

-----------------------------------------------------------------------------
(* jsonwebtoken, as the handlers use it *)

JWT_SECRET == "JWT_SECRET"

\* expiresIn: '7d', in days
TokenLifetime == 7

\* jwt.sign(payload, JWT_SECRET, {expiresIn: '7d'}): payload plus iat and exp
JwtSign(userId, companyId, role, now) ==
  [kind |-> "jwt", userId |-> userId, companyId |-> companyId, role |-> role,
   iat |-> now, exp |-> now + TokenLifetime, key |-> JWT_SECRET]

-----------------------------------------------------------------------------
(* State after initDB on an empty database *)

NoToken == [kind |-> "none"]

NoUser == [userId |-> 0, companyId |-> 0, role |-> "none"]

NoResp == [op |-> "none", status |-> 0]

NoBody == [email |-> Undefined, password |-> Undefined, companyName |-> Undefined]

\* a register request: where its handler stands, req.body, companyId, and its response
NewReg == [pc |-> "new", body |-> NoBody, companyId |-> 0,
           status |-> 0, err |-> "none", token |-> NoToken]

Init ==
  /\ companies = {}
  /\ users = {}
  /\ company_branding = {}
  /\ quotes = {}
  /\ seq = [companies |-> 1, users |-> 1, quotes |-> 1]
  /\ reg = [p \in Regs |-> NewReg]
  /\ issued = {}
  /\ clock = 0
  /\ resp = NoResp

-----------------------------------------------------------------------------
(* POST /api/register *)

RegisterBodies ==
  [email : Emails, password : {"secret123", Undefined}, companyName : {"Acme Worktops"}]

\* a catch block that undoes the failed request's company and branding inserts
RegisterFailedRolledBack(p, err, drawn) ==
  /\ reg' = [reg EXCEPT ![p].pc = "done", ![p].status = 500, ![p].err = err]
  /\ seq' = drawn
  /\ companies' = {c \in companies : c.id # reg[p].companyId}
  /\ company_branding' = {b \in company_branding : b.company_id # reg[p].companyId}
  /\ UNCHANGED users

\* catch (err) of the register handler: 500 'Registration failed'; nothing the
\* handler has inserted is undone.  drawn: the sequence values the failed query drew
RegisterFailed(p, err, drawn) ==
  /\ reg' = [reg EXCEPT ![p].pc = "done", ![p].status = 500, ![p].err = err]
  /\ seq' = drawn
  /\ UNCHANGED <<companies, company_branding, users>>

\* SELECT id FROM users WHERE email = $1, and the early 400.  Requests are
\* numbered in the order their first query reaches the store
RegisterCheckEmail(p, body, fault) ==
  /\ reg[p].pc = "new"
  /\ \A q \in Regs : q < p => reg[q].pc # "new"
  /\ LET r == [reg[p] EXCEPT !.body = body] IN
       IF fault
         \* nothing is inserted yet: the catch block only answers 500
         THEN reg' = [reg EXCEPT ![p] = [r EXCEPT !.pc = "done", !.status = 500, !.err = "store"]]
         ELSE IF \E u \in users : u.email = body.email
           THEN reg' = [reg EXCEPT ![p] = [r EXCEPT !.pc = "done", !.status = 400, !.err = "taken"]]
           ELSE reg' = [reg EXCEPT ![p] = [r EXCEPT !.pc = "checked"]]
  /\ UNCHANGED <<store, issued, clock, resp>>

\* the row INSERT INTO companies (company_name, email, phone, postcode) builds
NewCompany(id, email, companyName) ==
  [id |-> id, email |-> email, company_name |-> companyName, phone |-> NULL,
   postcode |-> NULL, address_line1 |-> NULL, address_line2 |-> NULL,
   city |-> NULL, vat_number |-> NULL]

\* companies.email is UNIQUE
CompanyEmailTaken(email) == \E c \in companies : c.email = email

\* INSERT INTO companies ... RETURNING id
RegisterInsertCompany(p, fault) ==
  /\ reg[p].pc = "checked"
  /\ IF fault
       THEN RegisterFailed(p, "store", seq)
       ELSE IF CompanyEmailTaken(reg[p].body.email)
         \* the SERIAL value is drawn before the constraint is checked
         THEN RegisterFailed(p, "unique", [seq EXCEPT !.companies = @ + 1])
         ELSE /\ companies' = companies \cup {NewCompany(seq.companies, reg[p].body.email,
                                                         reg[p].body.companyName)}
              /\ seq' = [seq EXCEPT !.companies = @ + 1]
              /\ reg' = [reg EXCEPT ![p].pc = "company", ![p].companyId = seq.companies]
              /\ UNCHANGED <<users, company_branding>>
  /\ UNCHANGED <<quotes, issued, clock, resp>>

\* the column defaults of company_branding
DefaultBranding(companyId) ==
  [company_id |-> companyId, logo_url |-> NULL, primary_colour |-> "#033f2a",
   secondary_colour |-> "#f6d466", quote_header_text |-> NULL, quote_footer_text |-> NULL]

\* INSERT INTO company_branding (company_id) VALUES ($1); company_id is UNIQUE
RegisterInsertBranding(p, fault) ==
  /\ reg[p].pc = "company"
  /\ IF fault
       THEN RegisterFailed(p, "store", seq)
       ELSE IF \E b \in company_branding : b.company_id = reg[p].companyId
         THEN RegisterFailed(p, "unique", seq)
         ELSE /\ company_branding' = company_branding \cup {DefaultBranding(reg[p].companyId)}
              /\ reg' = [reg EXCEPT ![p].pc = "branding"]
              /\ UNCHANGED <<companies, users, seq>>
  /\ UNCHANGED <<quotes, issued, clock, resp>>

\* await bcrypt.hash(password, 10)
RegisterHash(p) ==
  /\ reg[p].pc = "branding"
  /\ IF IsString(reg[p].body.password)
       THEN reg' = [reg EXCEPT ![p].pc = "hashed"] /\ UNCHANGED store
       \* bcrypt.hash throws on a password that is not a string
       ELSE RegisterFailed(p, "bcrypt", seq) /\ UNCHANGED quotes
  /\ UNCHANGED <<issued, clock, resp>>

\* the row INSERT INTO users (..., 'trade_admin') builds
NewUser(id, companyId, email, hash) ==
  [id |-> id, company_id |-> companyId, email |-> email, password_hash |-> hash,
   role |-> "trade_admin"]

\* the claims the register handler signs
RegisterClaims(userRow, companyId) ==
  [userId |-> userRow.id, companyId |-> companyId, role |-> "trade_admin"]

\* INSERT INTO users ... RETURNING id, then jwt.sign and the 200 response
RegisterInsertUser(p, fault) ==
  /\ reg[p].pc = "hashed"
  /\ IF fault
       THEN RegisterFailed(p, "store", seq) /\ UNCHANGED issued
       ELSE IF \E u \in users : u.email = reg[p].body.email
         THEN RegisterFailed(p, "unique", [seq EXCEPT !.users = @ + 1]) /\ UNCHANGED issued
         ELSE LET row == NewUser(seq.users, reg[p].companyId, reg[p].body.email,
                                 BcryptHash(reg[p].body.password))
                  c == RegisterClaims(row, reg[p].companyId)
                  token == JwtSign(c.userId, c.companyId, c.role, clock)
              IN /\ users' = users \cup {row}
                 /\ seq' = [seq EXCEPT !.users = @ + 1]
                 /\ issued' = issued \cup {token}
                 /\ reg' = [reg EXCEPT ![p].pc = "done", ![p].status = 200,
                                       ![p].token = token]
                 /\ UNCHANGED <<companies, company_branding>>
  /\ UNCHANGED <<quotes, clock, resp>>

Register(ps, faults) ==
  \/ \E p \in ps, fault \in faults, body \in RegisterBodies : RegisterCheckEmail(p, body, fault)
  \/ \E p \in ps, fault \in faults : RegisterInsertCompany(p, fault)
  \/ \E p \in ps, fault \in faults : RegisterInsertBranding(p, fault)
  \/ \E p \in ps : RegisterHash(p)
  \/ \E p \in ps, fault \in faults : RegisterInsertUser(p, fault)

-----------------------------------------------------------------------------
(* POST /api/login *)

LoginBodies == [email : Emails, password : {"secret123", "letmein", Undefined}]

\* the login claims with the user's id signed as the company id
LoginClaimsUserAsCompany(user) == [userId |-> user.id, companyId |-> user.id, role |-> user.role]

\* the claims the login handler signs, from the row it read
LoginClaims(user) == [userId |-> user.id, companyId |-> user.company_id, role |-> user.role]

\* SELECT u.*, ... FROM users u JOIN companies c ... WHERE u.email = $1
LoginRows(email) ==
  {u \in users : u.email = email /\ \E c \in companies : c.id = u.company_id}

Login(body, fault) ==
  /\ LET rows == LoginRows(body.email)
         out(status, err, claims) ==
           [op |-> "login", status |-> status, err |-> err, body |-> body, claims |-> claims]
     IN IF fault
          THEN resp' = out(500, "store", NoUser) /\ UNCHANGED issued
          ELSE IF rows = {}
            THEN resp' = out(400, "credentials", NoUser) /\ UNCHANGED issued
            ELSE LET user == CHOOSE u \in rows : TRUE IN
              IF ~IsString(body.password)
                \* bcrypt.compare throws, the catch block answers 500
                THEN resp' = out(500, "bcrypt", NoUser) /\ UNCHANGED issued
                ELSE IF ~BcryptCompare(body.password, user.password_hash)
                  THEN resp' = out(400, "credentials", NoUser) /\ UNCHANGED issued
                  ELSE LET c == LoginClaims(user)
                           token == JwtSign(c.userId, c.companyId, c.role, clock)
                       IN /\ resp' = out(200, "none", c)
                          /\ issued' = issued \cup {token}
  /\ UNCHANGED <<store, reg, clock>>

-----------------------------------------------------------------------------
(* authenticateToken *)

Word(s) == [kind |-> "word", s |-> s]

\* the Authorization header: absent, or its parts as split(' ') yields them
AbsentHeader == [kind |-> "absent", parts |-> <<>>]

Header(parts) == [kind |-> "header", parts |-> parts]

Bearer(token) == Header(<<Word("Bearer"), token>>)

\* tokens signed without JWT_SECRET: any claims, any expiry
Forged ==
  {[kind |-> "jwt", userId |-> u, companyId |-> c, role |-> "trade_admin",
    iat |-> 0, exp |-> MaxClock + TokenLifetime, key |-> "attacker"] : u \in 1 .. 2, c \in 1 .. 2}

\* what a client can send: nothing, a header without a token part, an empty or
\* malformed token, a token the server issued (under any scheme word), a forged one
Headers ==
  {AbsentHeader, Header(<<Word("Bearer")>>), Bearer(Word("")), Bearer(Word("not.a.jwt"))}
    \cup {Bearer(t) : t \in issued \cup Forged}
    \cup {Header(<<Word("Basic"), t>>) : t \in issued}

\* authHeader && authHeader.split(' ')[1]
HeaderToken(header) ==
  IF header.kind = "absent" \/ Len(header.parts) < 2 THEN Word(Undefined) ELSE header.parts[2]

\* !token
Falsy(token) == token \in {Word(Undefined), Word("")}

\* a verification that does not look at exp
JwtVerifyErrorNoExpiry(token, secret, now) ==
  IF token.kind # "jwt" THEN "jwt malformed"
  ELSE IF token.key # secret THEN "invalid signature"
  ELSE "none"

\* jwt.verify(token, JWT_SECRET): the error the callback gets, or "none"
JwtVerifyError(token, secret, now) ==
  IF token.kind # "jwt" THEN "jwt malformed"
  ELSE IF token.key # secret THEN "invalid signature"
  ELSE IF now >= token.exp THEN "jwt expired"
  ELSE "none"

\* the claims of a token
Claims(token) == [userId |-> token.userId, companyId |-> token.companyId, role |-> token.role]

\* a middleware that answers 401 to every token it does not accept
authenticateTokenAlways401(header, now) ==
  LET token == HeaderToken(header) IN
    IF Falsy(token) THEN [status |-> 401, user |-> NoUser, err |-> "no token"]
    ELSE LET err == JwtVerifyError(token, JWT_SECRET, now) IN
      IF err # "none" THEN [status |-> 401, user |-> NoUser, err |-> err]
      ELSE [status |-> 0, user |-> Claims(token), err |-> "none"]

\* the middleware: the status it answers with (0 when it calls next), req.user,
\* and why it answered
authenticateToken(header, now) ==
  LET token == HeaderToken(header) IN
    IF Falsy(token) THEN [status |-> 401, user |-> NoUser, err |-> "no token"]
    ELSE LET err == JwtVerifyError(token, JWT_SECRET, now) IN
      IF err # "none" THEN [status |-> 403, user |-> NoUser, err |-> err]
      ELSE [status |-> 0, user |-> Claims(token), err |-> "none"]

NoData == [id |-> 0]

\* the last response of a single-query handler: status and body (data), with the
\* request's :id, req.user, the error caught, and the number of store queries made
Response(op, id, status, err, user, queries, data) ==
  [op |-> op, id |-> id, status |-> status, err |-> err, user |-> user,
   queries |-> queries, data |-> data]

\* the middleware answered: the route handler does not run
Rejected(op, id, auth) ==
  /\ resp' = Response(op, id, auth.status, auth.err, NoUser, 0, NoData)
  /\ UNCHANGED <<store, reg, issued, clock>>

\* a company id taken from the request when the client supplies one
ScopeCompanyIdFromRequest(user, params) ==
  IF params.companyId # 0 THEN params.companyId ELSE user.companyId

\* the company id every tenant-scoped query is given: req.user.companyId
ScopeCompanyId(user, params) == user.companyId

-----------------------------------------------------------------------------
(* GET /api/me *)

GetMe(header, fault) ==
  LET auth == authenticateToken(header, clock) IN
    IF auth.status # 0 THEN Rejected("me", 0, auth)
    ELSE
      /\ LET rows == {u \in users : u.id = auth.user.userId
                                    /\ \E c \in companies : c.id = u.company_id}
         IN resp' = IF fault THEN Response("me", 0, 500, "store", auth.user, 1, NoData)
                    ELSE IF rows = {} THEN Response("me", 0, 404, "none", auth.user, 1, NoData)
                    ELSE Response("me", 0, 200, "none", auth.user, 1,
                                  [id |-> (CHOOSE u \in rows : TRUE).id])
      /\ UNCHANGED <<store, reg, issued, clock>>

-----------------------------------------------------------------------------
(* PUT /api/branding *)

\* UPDATE company_branding SET col = COALESCE($n, col) ..., on one row
UpdateBranding(b, body) ==
  [b EXCEPT !.logo_url = COALESCE(SqlParam(body.logoUrl), @),
            !.primary_colour = COALESCE(SqlParam(body.primaryColour), @),
            !.secondary_colour = COALESCE(SqlParam(body.secondaryColour), @),
            !.quote_header_text = COALESCE(SqlParam(body.quoteHeaderText), @),
            !.quote_footer_text = COALESCE(SqlParam(body.quoteFooterText), @)]

PutBranding(header, body, fault) ==
  LET auth == authenticateToken(header, clock) IN
    IF auth.status # 0 THEN Rejected("putBranding", 0, auth)
    ELSE IF fault
      THEN /\ resp' = Response("putBranding", 0, 500, "store", auth.user, 1, NoData)
           /\ UNCHANGED <<store, reg, issued, clock>>
      ELSE /\ company_branding' =
                {IF b.company_id = ScopeCompanyId(auth.user, body)
                   THEN UpdateBranding(b, body) ELSE b : b \in company_branding}
           /\ resp' = Response("putBranding", 0, 200, "none", auth.user, 1, NoData)
           /\ UNCHANGED <<companies, users, quotes, seq, reg, issued, clock>>

-----------------------------------------------------------------------------
(* PUT /api/company *)

\* UPDATE companies SET col = COALESCE($n, col) ..., on one row
UpdateCompany(c, body) ==
  [c EXCEPT !.company_name = COALESCE(SqlParam(body.companyName), @),
            !.phone = COALESCE(SqlParam(body.phone), @),
            !.address_line1 = COALESCE(SqlParam(body.addressLine1), @),
            !.address_line2 = COALESCE(SqlParam(body.addressLine2), @),
            !.city = COALESCE(SqlParam(body.city), @),
            !.postcode = COALESCE(SqlParam(body.postcode), @),
            !.vat_number = COALESCE(SqlParam(body.vatNumber), @)]

PutCompany(header, body, fault) ==
  LET auth == authenticateToken(header, clock) IN
    IF auth.status # 0 THEN Rejected("putCompany", 0, auth)
    ELSE IF fault
      THEN /\ resp' = Response("putCompany", 0, 500, "store", auth.user, 1, NoData)
           /\ UNCHANGED <<store, reg, issued, clock>>
      ELSE /\ companies' =
                {IF c.id = ScopeCompanyId(auth.user, body)
                   THEN UpdateCompany(c, body) ELSE c : c \in companies}
           /\ resp' = Response("putCompany", 0, 200, "none", auth.user, 1, NoData)
           /\ UNCHANGED <<users, company_branding, quotes, seq, reg, issued, clock>>

-----------------------------------------------------------------------------
(* POST /api/quotes *)

\* new Date().getFullYear(), day 0 of the clock being 1 January 2026
YearOf(now) == 2026 + (now \div 365)

\* PW-<year>-<Math.floor(Math.random() * 9000) + 1000>; draw is Math.floor(...)
generateQuoteRef(now, draw) == <<"PW", YearOf(now), draw + 1000>>

\* the row INSERT INTO quotes builds; status defaults to 'draft'
NewQuote(id, companyId, userId, quoteRef, body) ==
  [id |-> id, company_id |-> companyId, created_by |-> userId, quote_reference |-> quoteRef,
   status |-> "draft", customer_name |-> SqlParam(body.customerName)]

\* a quotes table without the UNIQUE constraint on quote_reference
QuoteRefNeverTaken(quoteRef) == FALSE

\* quotes.quote_reference is UNIQUE
QuoteRefTaken(quoteRef) == \E q \in quotes : q.quote_reference = quoteRef

\* company_id REFERENCES companies(id), created_by REFERENCES users(id)
QuoteKeysExist(companyId, userId) ==
  /\ \E c \in companies : c.id = companyId
  /\ \E u \in users : u.id = userId

PostQuotes(header, body, draw, fault) ==
  LET auth == authenticateToken(header, clock) IN
    IF auth.status # 0 THEN Rejected("postQuotes", 0, auth)
    ELSE
      LET quoteRef == generateQuoteRef(clock, draw)
          companyId == ScopeCompanyId(auth.user, body)
          row == NewQuote(seq.quotes, companyId, auth.user.userId, quoteRef, body)
          failed(err) == Response("postQuotes", 0, 500, err, auth.user, 1, NoData)
      IN
        /\ IF fault
             THEN resp' = failed("store") /\ UNCHANGED <<quotes, seq>>
             ELSE IF QuoteRefTaken(quoteRef) \/ ~QuoteKeysExist(companyId, auth.user.userId)
               \* the SERIAL value is drawn before the constraints are checked
               THEN /\ resp' = failed(IF QuoteRefTaken(quoteRef) THEN "unique" ELSE "foreign key")
                    /\ seq' = [seq EXCEPT !.quotes = @ + 1]
                    /\ UNCHANGED quotes
               ELSE /\ quotes' = quotes \cup {row}
                    /\ seq' = [seq EXCEPT !.quotes = @ + 1]
                    /\ resp' = Response("postQuotes", 0, 200, "none", auth.user, 1, row)
        /\ UNCHANGED <<companies, users, company_branding, reg, issued, clock>>

-----------------------------------------------------------------------------
(* GET /api/quotes/:id *)

\* the SELECT without its company predicate
SelectQuoteOfAnyCompany(id, companyId) == {q \in quotes : q.id = id}

\* SELECT q.* ... WHERE q.id = $1 AND q.company_id = $2
SelectQuote(id, companyId) == {q \in quotes : q.id = id /\ q.company_id = companyId}

\* what the handler answers once the middleware has set req.user
GetQuoteResponse(user, id, params, fault) ==
  LET rows == SelectQuote(id, ScopeCompanyId(user, params)) IN
    IF fault THEN Response("getQuote", id, 500, "store", user, 1, NoData)
    ELSE IF rows = {} THEN Response("getQuote", id, 404, "none", user, 1, NoData)
    ELSE Response("getQuote", id, 200, "none", user, 1, CHOOSE q \in rows : TRUE)

GetQuote(header, id, params, fault) ==
  LET auth == authenticateToken(header, clock) IN
    IF auth.status # 0 THEN Rejected("getQuote", id, auth)
    ELSE /\ resp' = GetQuoteResponse(auth.user, id, params, fault)
         /\ UNCHANGED <<store, reg, issued, clock>>

-----------------------------------------------------------------------------
(* PATCH /api/quotes/:id/status *)

\* UPDATE quotes SET status = $1 WHERE id = $2 AND company_id = $3
UpdateStatus(id, companyId, status) ==
  {IF q.id = id /\ q.company_id = companyId THEN [q EXCEPT !.status = SqlParam(status)] ELSE q
     : q \in quotes}

PatchStatus(header, id, body, fault) ==
  LET auth == authenticateToken(header, clock) IN
    IF auth.status # 0 THEN Rejected("patchStatus", id, auth)
    ELSE IF fault
      THEN /\ resp' = Response("patchStatus", id, 500, "store", auth.user, 1, NoData)
           /\ UNCHANGED <<store, reg, issued, clock>>
      ELSE /\ quotes' = UpdateStatus(id, ScopeCompanyId(auth.user, body), body.status)
           \* the row count of the UPDATE is not read
           /\ resp' = Response("patchStatus", id, 200, "none", auth.user, 1, NoData)
           /\ UNCHANGED <<companies, users, company_branding, seq, reg, issued, clock>>

-----------------------------------------------------------------------------
(* The clock: one day passes *)

Tick ==
  /\ clock < MaxClock
  /\ clock' = clock + 1
  /\ UNCHANGED <<store, reg, issued, resp>>

-----------------------------------------------------------------------------
(* Registration and login, requests interleaved at their awaits *)

Next ==
  \/ Register(Regs, BOOLEAN)
  \/ \E body \in LoginBodies, fault \in BOOLEAN : Login(body, fault)

Spec == Init /\ [][Next]_vars

-----------------------------------------------------------------------------
(* Two tenants registered: the store after register requests 1 and 2 have     *)
(* both answered 200, one for each email                                      *)

TenantEmail(i) == IF i = 1 THEN "a@acme.test" ELSE "b@stone.test"

TenantBody(i) ==
  [email |-> TenantEmail(i), password |-> "secret123", companyName |-> "Acme Worktops"]

TenantToken(i) == JwtSign(i, i, "trade_admin", 0)

TenantInit ==
  /\ companies = {NewCompany(i, TenantEmail(i), "Acme Worktops") : i \in 1 .. 2}
  /\ users = {NewUser(i, i, TenantEmail(i), BcryptHash("secret123")) : i \in 1 .. 2}
  /\ company_branding = {DefaultBranding(i) : i \in 1 .. 2}
  /\ quotes = {}
  /\ seq = [companies |-> 3, users |-> 3, quotes |-> 1]
  /\ reg = [p \in Regs |-> IF p <= 2
                             THEN [pc |-> "done", body |-> TenantBody(p), companyId |-> p,
                                   status |-> 200, err |-> "none", token |-> TenantToken(p)]
                             ELSE NewReg]
  /\ issued = {TenantToken(i) : i \in 1 .. 2}
  /\ clock = 0
  /\ resp = NoResp

-----------------------------------------------------------------------------
(* Request inputs of the tenant-scoped handlers *)

\* the headers the tenant handlers are sent: each issued token, and a forged
\* one that names tenant 2
TenantHeaders ==
  {Bearer(t) : t \in issued} \cup {Bearer(t) : t \in {f \in Forged : f.userId = 1 /\ f.companyId = 2}}

\* a companyId the client supplies in the body or query; 0 stands for none
NoParams == [companyId |-> 0]

NoBranding ==
  [logoUrl |-> Undefined, primaryColour |-> Undefined, secondaryColour |-> Undefined,
   quoteHeaderText |-> Undefined, quoteFooterText |-> Undefined, companyId |-> 0]

CompanyBody(c) ==
  [companyName |-> "Stone Ltd", phone |-> Undefined, addressLine1 |-> Undefined,
   addressLine2 |-> JsNull, city |-> "Leeds", postcode |-> Undefined,
   vatNumber |-> Undefined, companyId |-> c]

QuoteBody(c) == [customerName |-> "Jane Doe", companyId |-> c]

StatusBody(status, c) == [status |-> status, companyId |-> c]

QuoteIds == 1 .. MaxQuotes + 1

\* the values Math.floor(Math.random() * 9000) takes in the model
Draws == 0 .. NumRefs - 1

-----------------------------------------------------------------------------
(* Quotes: create, read and set the status, from two registered tenants *)

NextQuotes ==
  \/ \E header \in TenantHeaders, fault \in BOOLEAN, draw \in Draws :
       seq.quotes <= MaxQuotes /\ PostQuotes(header, QuoteBody(0), draw, fault)
  \/ \E header \in TenantHeaders, fault \in BOOLEAN, id \in QuoteIds :
       GetQuote(header, id, NoParams, fault)
  \/ \E header \in TenantHeaders, fault \in BOOLEAN, id \in QuoteIds :
       PatchStatus(header, id, StatusBody("sent", 0), fault)

SpecQuotes == TenantInit /\ [][NextQuotes]_vars

-----------------------------------------------------------------------------
(* The authenticated writes, each request also carrying a companyId of its own *)

\* the companyId a request of NextWrites carries: none, or tenant 2
SuppliedIds == {0, 2}

WriteBrandingBody(c) == [NoBranding EXCEPT !.primaryColour = "#111111", !.companyId = c]

NextWrites ==
  \/ \E header \in TenantHeaders, c \in SuppliedIds, fault \in BOOLEAN :
       PutBranding(header, WriteBrandingBody(c), fault)
  \/ \E header \in TenantHeaders, c \in SuppliedIds, fault \in BOOLEAN :
       PutCompany(header, CompanyBody(c), fault)
  \/ \E header \in TenantHeaders, c \in SuppliedIds, fault \in BOOLEAN :
       seq.quotes <= MaxQuotes /\ PostQuotes(header, QuoteBody(c), 0, fault)
  \/ \E header \in TenantHeaders, c \in SuppliedIds, fault \in BOOLEAN, id \in QuoteIds :
       PatchStatus(header, id, StatusBody("sent", c), fault)

SpecWrites == TenantInit /\ [][NextWrites]_vars

-----------------------------------------------------------------------------
(* PUT /api/branding over request bodies: every subset of the five fields    *)
(* supplied, and each field supplied as null                                 *)

BrandingBodies ==
  [logoUrl : {Undefined, "/logo.png"}, primaryColour : {Undefined, "#111111"},
   secondaryColour : {Undefined, "#222222"}, quoteHeaderText : {Undefined, "Hello"},
   quoteFooterText : {Undefined, "Thanks"}, companyId : {0}]
  \cup {[NoBranding EXCEPT !.logoUrl = JsNull], [NoBranding EXCEPT !.primaryColour = JsNull],
        [NoBranding EXCEPT !.secondaryColour = JsNull],
        [NoBranding EXCEPT !.quoteHeaderText = JsNull],
        [NoBranding EXCEPT !.quoteFooterText = JsNull]}

NextBranding ==
  \E header \in TenantHeaders, body \in BrandingBodies, fault \in BOOLEAN :
    PutBranding(header, body, fault)

SpecBranding == TenantInit /\ [][NextBranding]_vars

-----------------------------------------------------------------------------
(* Tokens over time: one register request, logins, and GET /api/me *)

\* number of tokens followed
MaxTokens == 2

NextToken ==
  \/ Register({1}, {FALSE})
  \/ \E body \in LoginBodies :
       Cardinality(issued) < MaxTokens /\ Login(body, FALSE)
  \/ \E header \in Headers, fault \in BOOLEAN : GetMe(header, fault)
  \/ Tick

SpecToken == Init /\ [][NextToken]_vars

-----------------------------------------------------------------------------
(* Every protected route behind the middleware, over every kind of header,   *)
(* as the tokens of two registered tenants age                               *)

\* every kind of header, the server-issued token being tenant 1's
AuthHeaders ==
  {h \in Headers : h.kind = "header" /\ Len(h.parts) = 2 /\ h.parts[2].kind = "jwt"
                   => h.parts[2].userId = 1 /\ h.parts[2].companyId = 1}

NextAuth ==
  \/ \E header \in AuthHeaders : GetMe(header, FALSE)
  \/ \E header \in AuthHeaders : PutBranding(header, WriteBrandingBody(0), FALSE)
  \/ \E header \in AuthHeaders : PutCompany(header, CompanyBody(0), FALSE)
  \/ \E header \in AuthHeaders :
       seq.quotes <= MaxQuotes /\ PostQuotes(header, QuoteBody(0), 0, FALSE)
  \/ \E header \in AuthHeaders : GetQuote(header, 1, NoParams, FALSE)
  \/ \E header \in AuthHeaders : PatchStatus(header, 1, StatusBody("sent", 0), FALSE)
  \/ Tick

SpecAuth == TenantInit /\ [][NextAuth]_vars

-----------------------------------------------------------------------------
(* Registration: duplicate emails and partial tenants (Spec) *)

CompaniesOf(email) == {c \in companies : c.email = email}

UsersOf(email) == {u \in users : u.email = email}

BrandingOf(email) == {b \in company_branding : \E c \in CompaniesOf(email) : b.company_id = c.id}

\* a register request that has answered, with a string password and no store fault
AnsweredCleanly(p) ==
  reg[p].pc = "done" /\ IsString(reg[p].body.password) /\ reg[p].err \notin {"store", "bcrypt"}

\* C1: of two register requests with the same email (neither hit by a store
\* fault, both with a usable password), one is answered 200 and the other 400,
\* and exactly one company, one user and one branding row exist for the email
C1_DuplicateEmailRejected400 ==
  \A p, q \in Regs :
    (p # q /\ AnsweredCleanly(p) /\ AnsweredCleanly(q)
       /\ reg[p].body.email = reg[q].body.email)
    => /\ {reg[p].status, reg[q].status} = {200, 400}
       /\ Cardinality(CompaniesOf(reg[p].body.email)) = 1
       /\ Cardinality(UsersOf(reg[p].body.email)) = 1
       /\ Cardinality(BrandingOf(reg[p].body.email)) = 1

\* a register request failed after its company insert had succeeded
FailedPartway(p) == reg[p].pc = "done" /\ reg[p].status # 200 /\ reg[p].companyId # 0

\* C8: a register request that fails after its company insert has succeeded
\* answers 500 and the rows it inserted stay: its company is stored and has no
\* user; and the failing step itself changes no company, branding or user row
C8_PartialTenantStays ==
  /\ [](\A p \in Regs :
          FailedPartway(p)
          => /\ reg[p].status = 500
             /\ \E c \in companies : c.id = reg[p].companyId
             /\ ~ \E u \in users : u.company_id = reg[p].companyId)
  /\ [][\A p \in Regs :
          (reg[p].companyId # 0 /\ reg[p].pc # "done" /\ reg'[p].pc = "done"
             /\ reg'[p].status # 200)
          => /\ reg'[p].status = 500
             /\ companies' = companies
             /\ company_branding' = company_branding
             /\ users' = users]_vars

\* a company is stored with neither a branding row nor a user, its request answered 500
C8_Witness ==
  \E p \in Regs :
    /\ FailedPartway(p) /\ reg[p].status = 500
    /\ \E c \in companies : c.id = reg[p].companyId
    /\ ~ \E b \in company_branding : b.company_id = reg[p].companyId
    /\ ~ \E u \in users : u.company_id = reg[p].companyId

-----------------------------------------------------------------------------
(* Issued tokens and login (Spec) *)

\* the user a login request's credentials verify against, if any
Verifies(body) ==
  \E u \in LoginRows(body.email) :
    IsString(body.password) /\ BcryptCompare(body.password, u.password_hash)

\* every issued token names a stored user and that user's company
IssuedTokensNameUsers ==
  \A t \in issued : \E u \in users : u.id = t.userId /\ u.company_id = t.companyId

\* login answers 200 and issues a token exactly when the credentials verify and
\* the store replies; the token carries the claims of the user's row
LoginIssuesOnlyVerified(body, fault) ==
  /\ resp'.status = 200 <=> (Verifies(body) /\ ~fault)
  /\ resp'.status = 200
     => \E u \in LoginRows(body.email) :
          /\ resp'.claims = [userId |-> u.id, companyId |-> u.company_id, role |-> u.role]
          /\ issued' = issued \cup {JwtSign(u.id, u.company_id, u.role, clock)}
  /\ resp'.status # 200 => issued' = issued /\ resp'.claims = NoUser

\* C10 as stated: tokens name a stored user and its company, login issues a
\* token only on verified credentials, and answers 400 otherwise (even with
\* the store replying to every query)
C10_LoginOtherwise400 ==
  /\ []IssuedTokensNameUsers
  /\ [][resp'.op = "login"
        => \A body \in LoginBodies \cap {resp'.body} :
             Login(body, FALSE)
             => /\ LoginIssuesOnlyVerified(body, FALSE)
                /\ resp'.status # 200 => resp'.status = 400]_vars

\* C10 amended: otherwise no token is issued and the answer is 400, or 500 when
\* the password is not a string (bcrypt.compare throws) or the store query fails
C10_LoginIssuesOnlyVerified ==
  /\ []IssuedTokensNameUsers
  /\ [][resp'.op = "login"
        => \A body \in LoginBodies \cap {resp'.body}, fault \in BOOLEAN :
             Login(body, fault)
             => /\ LoginIssuesOnlyVerified(body, fault)
                /\ resp'.status # 200
                   => resp'.status =
                        IF fault \/ (LoginRows(body.email) # {} /\ ~IsString(body.password))
                          THEN 500 ELSE 400]_vars

\* a login has just issued a token for a user whose id differs from the company's
C10_Witness ==
  /\ resp.op = "login" /\ resp.status = 200
  /\ resp.claims.userId # resp.claims.companyId
  /\ \E t \in issued : Claims(t) = resp.claims

-----------------------------------------------------------------------------
(* Quotes: tenant scoping of reads, reference collisions, status updates     *)
(* (SpecQuotes)                                                              *)

\* the quote with this id, if the company owns it
OwnedQuote(id, companyId) == {q \in quotes : q.id = id /\ q.company_id = companyId}

\* a quote with this id exists and another company owns it
ForeignQuote(id, companyId) == \E q \in quotes : q.id = id /\ q.company_id # companyId

\* what a response shows the client: the status and the body
Shown(r) == <<r.status, r.data>>

\* C2: GET /quotes/:id with a verified token of company A answers the quote's
\* data only if the quote's company_id is A (and does so when the store
\* replies); for a quote of another company it answers 404, or 500 on a store
\* fault, the same status and body as for an id no quote has, never 403 and
\* never the data
C2_GetQuoteScoped ==
  [][resp'.op = "getQuote" =>
     \A header \in TenantHeaders, id \in {resp'.id}, fault \in BOOLEAN :
       LET auth == authenticateToken(header, clock)
           A == auth.user.companyId
       IN (auth.status = 0 /\ GetQuote(header, id, NoParams, fault))
          => /\ resp'.status # 403
             /\ resp'.status = 200 => resp'.data \in OwnedQuote(id, A)
             /\ (OwnedQuote(id, A) # {} /\ ~fault) => resp'.status = 200
             /\ ForeignQuote(id, A)
                => /\ resp'.status = IF fault THEN 500 ELSE 404
                   /\ resp'.data = NoData
                   /\ \A missing \in QuoteIds :
                        (\A q \in quotes : q.id # missing)
                        => Shown(resp') = Shown(GetQuoteResponse(auth.user, missing, NoParams, fault))
     ]_vars

\* a quote of another company was asked for and the answer was 404
C2_Witness ==
  /\ resp.op = "getQuote" /\ resp.status = 404
  /\ ForeignQuote(resp.id, resp.user.companyId)

QuoteRefsUnique ==
  \A q1, q2 \in quotes : q1.quote_reference = q2.quote_reference => q1 = q2

\* C7: no two quotes hold the same reference; a POST /quotes whose generated
\* reference a stored quote (of any company) holds answers 500, adds no row and
\* leaves every stored quote as it is
C7_RefCollisionFails ==
  /\ []QuoteRefsUnique
  /\ [][resp'.op = "postQuotes" =>
        \A header \in TenantHeaders, draw \in Draws, fault \in BOOLEAN :
          (/\ authenticateToken(header, clock).status = 0
           /\ QuoteRefTaken(generateQuoteRef(clock, draw))
           /\ PostQuotes(header, QuoteBody(0), draw, fault))
          => resp'.status = 500 /\ quotes' = quotes]_vars

\* a creation has just failed on the reference of a quote of the other company
C7_Witness ==
  /\ resp.op = "postQuotes" /\ resp.status = 500 /\ resp.err = "unique"
  /\ \E q \in quotes : q.company_id # resp.user.companyId
  /\ Cardinality(quotes) = 1

\* C9: PATCH /quotes/:id/status (store replying) answers success exactly when
\* a quote with that id owned by the caller's company exists, and 404 otherwise
C9_SetStatusNotFound ==
  [][resp'.op = "patchStatus" =>
     \A header \in TenantHeaders, id \in QuoteIds :
       LET auth == authenticateToken(header, clock) IN
         (auth.status = 0 /\ PatchStatus(header, id, StatusBody("sent", 0), FALSE))
         => IF OwnedQuote(id, auth.user.companyId) # {}
              THEN resp'.status = 200 ELSE resp'.status = 404]_vars

-----------------------------------------------------------------------------
(* The authenticated writes stay inside the token's company (SpecWrites) *)

\* rows of companies other than A are as they were, and no user row changed
OthersUntouched(A) ==
  /\ {x \in companies' : x.id # A} = {x \in companies : x.id # A}
  /\ {x \in company_branding' : x.company_id # A}
       = {x \in company_branding : x.company_id # A}
  /\ {x \in quotes' : x.company_id # A} = {x \in quotes : x.company_id # A}
  /\ users' = users

\* what C3 asks of a step taken with this header
WriteFramed(header) ==
  LET auth == authenticateToken(header, clock) IN
    /\ auth.status # 0 => UNCHANGED store
    /\ OthersUntouched(auth.user.companyId)

\* C3: an authenticated write, whatever companyId its body or query carries,
\* leaves every company, branding and quote row of a company other than the
\* token's as it was, adds rows only to the token's company, and changes no row
\* at all when the token is rejected or when a PATCH names a quote the caller's
\* company does not own
C3_WritesStayInTenant ==
  [][\A header \in TenantHeaders, c \in SuppliedIds, fault \in BOOLEAN :
       /\ (resp'.op = "putBranding" /\ PutBranding(header, WriteBrandingBody(c), fault))
          => WriteFramed(header)
       /\ (resp'.op = "putCompany" /\ PutCompany(header, CompanyBody(c), fault))
          => WriteFramed(header)
       /\ (resp'.op = "postQuotes" /\ PostQuotes(header, QuoteBody(c), 0, fault))
          => WriteFramed(header)
       /\ (resp'.op = "patchStatus"
             /\ PatchStatus(header, resp'.id, StatusBody("sent", c), fault))
          => /\ WriteFramed(header)
             /\ OwnedQuote(resp'.id, authenticateToken(header, clock).user.companyId) = {}
                => UNCHANGED store
    ]_vars

\* a PATCH named a quote of the other company: answered 200, the quote still
\* a draft
C3_Witness ==
  /\ resp.op = "patchStatus" /\ resp.status = 200
  /\ \E q \in quotes :
       q.id = resp.id /\ q.company_id # resp.user.companyId /\ q.status = "draft"

-----------------------------------------------------------------------------
(* Partial update of the branding row (SpecBranding) *)

\* the value a supplied body field stands for in the store
Supplied(v) == IF v = JsNull THEN NULL ELSE v

\* C4: PUT /branding (store replying) gives each supplied field the supplied
\* value and leaves each omitted field at its stored value
C4_PartialUpdate ==
  [][resp'.op = "putBranding" =>
     \A header \in TenantHeaders, body \in BrandingBodies :
       LET auth == authenticateToken(header, clock) IN
         (auth.status = 0 /\ PutBranding(header, body, FALSE))
         => \A b \in company_branding :
              b.company_id = auth.user.companyId
              => \E b2 \in company_branding' :
                   /\ b2.company_id = b.company_id
                   /\ b2.logo_url =
                        IF body.logoUrl = Undefined THEN b.logo_url ELSE Supplied(body.logoUrl)
                   /\ b2.primary_colour =
                        IF body.primaryColour = Undefined THEN b.primary_colour
                        ELSE Supplied(body.primaryColour)
                   /\ b2.secondary_colour =
                        IF body.secondaryColour = Undefined THEN b.secondary_colour
                        ELSE Supplied(body.secondaryColour)
                   /\ b2.quote_header_text =
                        IF body.quoteHeaderText = Undefined THEN b.quote_header_text
                        ELSE Supplied(body.quoteHeaderText)
                   /\ b2.quote_footer_text =
                        IF body.quoteFooterText = Undefined THEN b.quote_footer_text
                        ELSE Supplied(body.quoteFooterText)
    ]_vars

-----------------------------------------------------------------------------
(* The middleware's answers (SpecAuth) *)

\* no token: no header, a header without a second part, or an empty second part
TokenAbsent(header) ==
  header.kind = "absent" \/ Len(header.parts) < 2 \/ header.parts[2] = Word("")

\* a token that is not a JWT
TokenMalformed(header) == ~TokenAbsent(header) /\ header.parts[2].kind # "jwt"

\* a JWT not signed with the server's key
SignatureInvalid(header) ==
  ~TokenAbsent(header) /\ header.parts[2].kind = "jwt" /\ header.parts[2].key # JWT_SECRET

\* a JWT signed with the server's key whose expiry the clock has reached
TokenExpired(header, now) ==
  /\ ~TokenAbsent(header) /\ header.parts[2].kind = "jwt"
  /\ header.parts[2].key = JWT_SECRET /\ now >= header.parts[2].exp

\* the request took this step of a protected route
ProtectedStep(header) ==
  \/ resp'.op = "me" /\ GetMe(header, FALSE)
  \/ resp'.op = "putBranding" /\ PutBranding(header, WriteBrandingBody(0), FALSE)
  \/ resp'.op = "putCompany" /\ PutCompany(header, CompanyBody(0), FALSE)
  \/ resp'.op = "postQuotes" /\ PostQuotes(header, QuoteBody(0), 0, FALSE)
  \/ resp'.op = "getQuote" /\ GetQuote(header, 1, NoParams, FALSE)
  \/ resp'.op = "patchStatus" /\ PatchStatus(header, 1, StatusBody("sent", 0), FALSE)

\* a rejected request: the handler did not run, no query was made, no row changed
HandlerSkipped == resp'.queries = 0 /\ resp'.user = NoUser /\ UNCHANGED <<store, issued>>

\* C5 as stated: 401 for an absent or malformed token, 403 for an invalid
\* signature or an expired token, and a rejected request runs no handler
C5_MalformedIs401 ==
  [][\A header \in AuthHeaders :
       ProtectedStep(header)
       => /\ (TokenAbsent(header) \/ TokenMalformed(header)) => resp'.status = 401
          /\ (SignatureInvalid(header) \/ TokenExpired(header, clock)) => resp'.status = 403
          /\ resp'.status \in {401, 403} => HandlerSkipped]_vars

\* C5 amended: 401 for an absent token, 403 for a malformed token, an invalid
\* signature or an expired token; every other token is accepted; a rejected
\* request runs no handler
C5_Rejections ==
  [][\A header \in AuthHeaders :
       ProtectedStep(header)
       => /\ TokenAbsent(header) => resp'.status = 401
          /\ (TokenMalformed(header) \/ SignatureInvalid(header)
                \/ TokenExpired(header, clock)) => resp'.status = 403
          /\ resp'.status \in {401, 403}
             => /\ HandlerSkipped
                /\ \/ TokenAbsent(header) \/ TokenMalformed(header)
                   \/ SignatureInvalid(header) \/ TokenExpired(header, clock)]_vars

\* a PUT /branding with an expired token of a registered tenant was answered
\* 403, the row it aimed at still holding the default colour
C5_Witness ==
  /\ resp.op = "putBranding" /\ resp.status = 403 /\ resp.err = "jwt expired"
  /\ resp.queries = 0
  /\ \A b \in company_branding : b.primary_colour = "#033f2a"

-----------------------------------------------------------------------------
(* Token lifetime (SpecToken) *)

\* C6: a token issued by register or login for (userId, companyId, role)
\* expires exactly TokenLifetime days after it was issued; verified before
\* that, it yields exactly those three claims; verified after, it is answered 403
C6_TokenLifetime ==
  /\ [](\A t \in issued : t.exp = t.iat + TokenLifetime /\ t.iat <= clock)
  /\ [][resp'.op = "me" =>
        \A t \in issued, fault \in BOOLEAN :
          GetMe(Bearer(t), fault)
          => /\ clock < t.iat + TokenLifetime
                => resp'.user = [userId |-> t.userId, companyId |-> t.companyId, role |-> t.role]
             /\ clock > t.iat + TokenLifetime
                => resp'.status = 403 /\ resp'.user = NoUser]_vars

\* GET /me with a token the server issued was answered 403 'jwt expired' while
\* a younger token of the same user is still good
C6_Witness ==
  /\ resp.op = "me" /\ resp.status = 403 /\ resp.err = "jwt expired"
  /\ \E t \in issued : clock > t.iat + TokenLifetime
  /\ \E t \in issued : clock < t.iat + TokenLifetime

====
